---- MODULE Spec2Model ----
(***************************************************************************)
(* Model of the persistent entry store of stashpass                        *)
(* (src/src/store/mod.rs, src/src/password/mod.rs) and of the dialog that  *)
(* drives it (src/src/cli/mod.rs, src/src/main.rs).                        *)
(*                                                                         *)
(* The state is the PasswordStore value of one process (the HashMap        *)
(* `passwords`), the backing file (existence and content) and the process  *)
(* status.  One action per public operation of the store.  The operating   *)
(* system may refuse to open the file, and a write may fail after the file *)
(* was truncated; the environment can also remove the file, overwrite it   *)
(* with unparsable bytes or write another entry into it.  A failed write   *)
(* is one that write_all reports.                                          *)
(*                                                                         *)
(* Spec     : the store's operations called in any order.                  *)
(* SpecRace : two processes running save_entry on one file, step by step.  *)
(* SpecDialog : the store called only through the command-line dialog.     *)
(* SpecSession : the dialog alone, with no other writer of the file.      *)
(***************************************************************************)
EXTENDS Integers, Sequences, FiniteSets, TLC

\* ------------------------------------------------------------------ bounds
\* Service names, in the key order of the persisted JSON object.
ServiceNames == <<"email", "github", "gitlab", "slack">>

UserNames == <<"alice", "bob", "carol">>

PasswordValues == <<"p1", "p2", "p3">>

\* The service names in another letter case: strings a user may type that
\* are no service name.
CaseVariants == <<"Email", "GitHub", "GitLab", "Slack">>

NumServices == 2

NumUsers == 2

NumPasswords == 2

Services == {ServiceNames[i] : i \in 1..NumServices}

Usernames == {UserNames[i] : i \in 1..NumUsers}

Passwords == {PasswordValues[i] : i \in 1..NumPasswords}

\* The strings get and check_for_duplicate_service_entry are asked about.
Queries == Services \cup {CaseVariants[i] : i \in 1..NumServices}

\* str::to_lowercase on the queries.
ToLower(q) ==
    IF \E i \in 1..Len(CaseVariants) : CaseVariants[i] = q
    THEN ServiceNames[CHOOSE i \in 1..Len(CaseVariants) : CaseVariants[i] = q]
    ELSE q

\* --------------------------------------------------------------- the entry
PasswordEntry(service, username, password) ==
    [service |-> service, username |-> username, password |-> password]

Entries == {PasswordEntry(s, u, p) : s \in Services, u \in Usernames, p \in Passwords}

NoEntry == PasswordEntry("", "", "")

\* ------------------------------------------------------ the persisted form
\* The bytes of the backing file: nothing at all, bytes that are not a JSON
\* object, or a JSON object written as the sequence of its members
\* <<key, username, password>>.
EmptyContent == [kind |-> "empty", members |-> <<>>]

Garbage == [kind |-> "garbage", members |-> <<>>]

JsonText(members) == [kind |-> "json", members |-> members]

NoFile == [exists |-> FALSE, content |-> EmptyContent]

\* json!({"username": .., "password": ..})
JsonValue(entry) == [username |-> entry.username, password |-> entry.password]

EmptyMap == [k \in {} |-> JsonValue(NoEntry)]

\* Map::insert: the value under `key` is replaced, the other members stay.
MapInsert(map, key, value) ==
    [k \in DOMAIN map \cup {key} |-> IF k = key THEN value ELSE map[k]]

RECURSIVE MapOfMembers(_)
\* The object a member list denotes: members are inserted in order, so a
\* repeated key keeps its last value.
MapOfMembers(members) ==
    IF members = <<>> THEN EmptyMap
    ELSE LET n == Len(members)
             m == members[n]
         IN MapInsert(MapOfMembers(SubSeq(members, 1, n - 1)), m[1],
                      [username |-> m[2], password |-> m[3]])

\* serde_json::from_reader::<Map<String, Value>>: Err on anything that is not
\* a JSON object (an empty file included).
ParseOk(content) == content.kind = "json"

from_reader(content) == MapOfMembers(content.members)

RECURSIVE MembersOf(_, _)
\* The members of `map` with keys of rank >= r, in key order.
MembersOf(map, r) ==
    IF r > Len(ServiceNames) THEN <<>>
    ELSE LET k == ServiceNames[r]
         IN (IF k \in DOMAIN map
             THEN <<(<<k, map[k].username, map[k].password>>)>>
             ELSE <<>>) \o MembersOf(map, r + 1)

\* serde_json::to_string_pretty(&json_obj)
to_string_pretty(map) == JsonText(MembersOf(map, 1))


\* ------------------------------------------------- the in-memory operations
EmptyIndex == [k \in {} |-> NoEntry]

\* An add that keeps the entry already stored under the service.
addKeepExisting(index, entry) ==
    [k \in DOMAIN index \cup {entry.service} |->
        IF k \in DOMAIN index THEN index[k] ELSE entry]

\* PasswordStore::add: self.passwords.insert(entry.service.clone(), entry)
add(index, entry) ==
    [k \in DOMAIN index \cup {entry.service} |->
        IF k = entry.service THEN entry ELSE index[k]]

\* A get that ignores the letter case of the service name.
getIgnoreCase(index, service) ==
    IF ToLower(service) \in DOMAIN index THEN {index[ToLower(service)]} ELSE {}

\* PasswordStore::get: Option<&PasswordEntry> as a set with at most one element
get(index, service) ==
    IF service \in DOMAIN index THEN {index[service]} ELSE {}

\* A duplicate check that compares the username of the entries.
checkForDuplicateUsername(index, service) ==
    \E k \in DOMAIN index : index[k].username = service

\* PasswordStore::check_for_duplicate_service_entry
check_for_duplicate_service_entry(index, service) ==
    \E k \in DOMAIN index : index[k].service = service

\* A listing that prints the password of the entries as well.
listWithPasswords(index) ==
    {<<k, index[k].username, index[k].password>> : k \in DOMAIN index}

\* PasswordStore::list_all: the (service, username) pairs it prints
list_all(index) ==
    {<<k, index[k].username>> : k \in DOMAIN index}

RECURSIVE AddAll(_, _, _)
\* The loop of PasswordStore::load: every member of the parsed object is
\* turned into a PasswordEntry and added.
AddAll(index, map, keys) ==
    IF keys = {} THEN index
    ELSE LET k == CHOOSE x \in keys : TRUE
         IN AddAll(add(index, PasswordEntry(k, map[k].username, map[k].password)),
                   map, keys \ {k})

\* PasswordStore::load on a readable, parsable file
load(index, content) ==
    LET json_obj == from_reader(content)
    IN AddAll(index, json_obj, DOMAIN json_obj)

\* The object save_entry writes: the object read from the file (an empty one
\* when the file does not parse) with the entry inserted under its service.
SavedObject(content, entry) ==
    MapInsert(IF ParseOk(content) THEN from_reader(content) ELSE EmptyMap,
              entry.service, JsonValue(entry))

\* An update that starts from a new object instead of the one it read.
UpdatedObjectFromEmpty(content, entry) ==
    MapInsert(EmptyMap, entry.service, JsonValue(entry))

\* The object update_entry writes.
UpdatedObject(content, entry) ==
    MapInsert(IF ParseOk(content) THEN from_reader(content) ELSE EmptyMap,
              entry.service, JsonValue(entry))

\* A new() that does not create the file.
CreatedFileMissing == NoFile

\* fs::File::create(file_path): an empty file now exists at the path.
CreatedFile == [exists |-> TRUE, content |-> EmptyContent]

\* The paths a store is opened on: the one of the application and the one of
\* the tests.
Paths == {"passwords.json", "passwords.txt"}

NoPath == ""

\* A new() that keeps the path of the application whatever it is given.
StoredDefaultPath(path_arg) == "passwords.json"

\* PasswordStore::new: file_path: file_path.clone()
StoredPath(path_arg) == path_arg

\* PasswordStore::get_file_path: self.file_path.clone()
get_file_path(stored) == stored

\* What the operating system answers when the process opens the file:
\* "rw" grants reading and writing, "r" reading only, "none" nothing.
Access == {"rw", "r", "none"}

\* File::open(&self.file_path) succeeds
CanRead(f, access) == f.exists /\ access \in {"rw", "r"}

\* OpenOptions::new().write(true).truncate(true).open(&self.file_path) succeeds
CanWrite(f, access) == f.exists /\ access = "rw"

\* What a write_all that fails can leave behind in the truncated file.
TruncatedContents == {EmptyContent, Garbage}

\* The processes of the two-process runs.
Procs == {"A", "B"}

\* A process that has not started its mutation.  `wrote_last` records that the
\* process wrote when the other one had already returned.
IdleProc ==
    [pc |-> "idle", op |-> "none", entry |-> NoEntry, index |-> EmptyIndex,
     json_obj |-> EmptyMap, result |-> "none", wrote_last |-> FALSE]

IdleProcs == [p \in Procs |-> IdleProc]

\* ------------------------------------------------------------------- state
VARIABLES
    passwords,  \* PasswordStore.passwords of the running process
    file,       \* the file at PasswordStore.file_path
    status,     \* "uninit" | "loaded" | "crashed" (the process panicked)
    last,       \* the last operation: its argument, its result, the access
                \* the operating system granted, the entry an add replaced
    fresh,      \* the running store was opened on a path without a file
    added,      \* the services add_and_save_entry was called with on the
                \* running store, recorded when the store is fresh
    trail,      \* the entries added since the path was fresh, as long as
                \* nothing else has touched the file
    path,       \* the path the process gives to PasswordStore::new
    file_path,  \* PasswordStore.file_path of the running process
    targets,    \* the paths the running store has opened or created
    external,   \* the record another writer put into the file while the
                \* store was loaded, as long as it has not been overwritten
    procs       \* two processes with a store on the same file, each inside
                \* one save_entry or update_entry

vars == <<passwords, file, status, last, fresh, added, trail,
          path, file_path, targets, external, procs>>

\* `replaced` is what the index held under the service of the entry when an
\* add_and_save_entry started (empty for the other operations).
Op(op, entry, result, access) ==
    [op |-> op, entry |-> entry, result |-> result, access |-> access,
     replaced |-> IF op = "add" THEN get(passwords, entry.service) ELSE {}]

NoTrail == [clean |-> FALSE, entries |-> {}]

Init ==
    /\ passwords = EmptyIndex
    /\ file = NoFile
    /\ status = "uninit"
    /\ last = Op("init", NoEntry, "ok", "rw")
    /\ fresh = FALSE
    /\ added = {}
    /\ trail = NoTrail
    /\ path \in Paths
    /\ file_path = NoPath
    /\ targets = {}
    /\ external = NoEntry
    /\ procs = IdleProcs

\* The process dies: its memory is gone.
Panic(op, entry, access) ==
    /\ status' = "crashed"
    /\ passwords' = EmptyIndex
    /\ fresh' = FALSE
    /\ added' = {}
    /\ file_path' = NoPath
    /\ targets' = {}
    /\ external' = NoEntry
    /\ UNCHANGED path
    /\ last' = Op(op, entry, "panic", access)

\* -------------------------------------------------------------- operations
\* PasswordStore::new on a path where a file exists: load() unwraps the open
\* and the parse.
NewExisting ==
    /\ UNCHANGED procs
    /\ status # "loaded"
    /\ file.exists
    /\ \E access \in Access :
         IF CanRead(file, access) /\ ParseOk(file.content)
         THEN /\ passwords' = load(EmptyIndex, file.content)
              /\ status' = "loaded"
              /\ fresh' = FALSE
              /\ added' = {}
              /\ file_path' = StoredPath(path)
              /\ targets' = {file_path'}
              /\ external' = NoEntry
              /\ UNCHANGED path
              /\ last' = Op("new", NoEntry, "ok", access)
         ELSE Panic("new", NoEntry, access)
    /\ UNCHANGED <<file, trail>>

\* PasswordStore::new on a path where no file exists: File::create(..).expect
NewFresh ==
    /\ UNCHANGED procs
    /\ status # "loaded"
    /\ ~file.exists
    /\ \E access \in Access :
         IF access = "rw"
         THEN /\ file' = CreatedFile
              /\ passwords' = EmptyIndex
              /\ status' = "loaded"
              /\ fresh' = TRUE
              /\ added' = {}
              /\ file_path' = StoredPath(path)
              /\ targets' = {path}
              /\ external' = NoEntry
              /\ UNCHANGED path
              /\ last' = Op("new", NoEntry, "ok", access)
              /\ trail' = [clean |-> TRUE, entries |-> {}]
         ELSE /\ Panic("new", NoEntry, access)
              /\ trail' = NoTrail
              /\ UNCHANGED file

\* The store is dropped (the process ends).
Drop ==
    /\ UNCHANGED procs
    /\ status = "loaded"
    /\ status' = "uninit"
    /\ passwords' = EmptyIndex
    /\ fresh' = FALSE
    /\ added' = {}
    /\ file_path' = NoPath
    /\ targets' = {}
    /\ external' = NoEntry
    /\ last' = Op("drop", NoEntry, "ok", "rw")
    /\ UNCHANGED <<file, trail, path>>

Get ==
    /\ UNCHANGED procs
    /\ status = "loaded"
    /\ \E s \in Queries :
         last' = Op("get", PasswordEntry(s, "", ""),
                    IF get(passwords, s) = {} THEN "none" ELSE "some", "rw")
    /\ UNCHANGED <<passwords, file, status, fresh, added, trail,
                   path, file_path, targets, external>>

Exists ==
    /\ UNCHANGED procs
    /\ status = "loaded"
    /\ \E s \in Queries :
         last' = Op("exists", PasswordEntry(s, "", ""),
                    IF check_for_duplicate_service_entry(passwords, s)
                    THEN "true" ELSE "false", "rw")
    /\ UNCHANGED <<passwords, file, status, fresh, added, trail,
                   path, file_path, targets, external>>

ListAll ==
    /\ UNCHANGED procs
    /\ status = "loaded"
    /\ last' = Op("list", NoEntry, "ok", "rw")
    /\ UNCHANGED <<passwords, file, status, fresh, added, trail,
                   path, file_path, targets, external>>

\* The record of the other writer after the store has written `entry`.
ExternalAfter(entry) ==
    IF entry.service = external.service THEN NoEntry ELSE external

\* The trail after add_and_save_entry(entry) ended with `result`.
TrailAfterAdd(entry, result) ==
    IF /\ trail.clean
       /\ result = "ok"
       /\ \A e \in trail.entries : e.service # entry.service
    THEN [clean |-> TRUE, entries |-> trail.entries \cup {entry}]
    ELSE NoTrail

\* PasswordStore::add_and_save_entry: add to the index, then save_entry.
add_and_save_entry(entry) ==
    /\ UNCHANGED procs
    /\ status = "loaded"
    /\ \E access \in Access :
         IF ~CanRead(file, access) \/ ~CanWrite(file, access)
         THEN /\ Panic("add", entry, access)
              /\ trail' = NoTrail
              /\ UNCHANGED file
         ELSE \E written \in BOOLEAN :
                /\ passwords' = add(passwords, entry)
                /\ added' = IF fresh THEN added \cup {entry.service} ELSE {}
                /\ targets' = targets \cup {file_path}
                /\ UNCHANGED <<status, fresh, path, file_path>>
                /\ IF written
                   THEN /\ file' = [file EXCEPT !.content =
                                      to_string_pretty(SavedObject(file.content, entry))]
                        /\ last' = Op("add", entry, "ok", access)
                        /\ trail' = TrailAfterAdd(entry, "ok")
                        /\ external' = ExternalAfter(entry)
                   ELSE /\ \E c \in TruncatedContents :
                              file' = [file EXCEPT !.content = c]
                        /\ last' = Op("add", entry, "err", access)
                        /\ trail' = NoTrail
                        /\ external' = NoEntry

\* A call of add_and_save_entry with any entry.
AddAndSaveEntry == \E entry \in Entries : add_and_save_entry(entry)

\* PasswordStore::update_entry
update_entry(entry) ==
    /\ UNCHANGED procs
    /\ status = "loaded"
    /\ \E access \in Access :
         IF ~CanRead(file, access) \/ ~CanWrite(file, access)
         THEN /\ Panic("update", entry, access)
              /\ UNCHANGED file
         ELSE \E written \in BOOLEAN :
                /\ targets' = targets \cup {file_path}
                /\ UNCHANGED <<passwords, status, fresh, added, path, file_path>>
                /\ IF written
                   THEN /\ file' = [file EXCEPT !.content =
                                      to_string_pretty(UpdatedObject(file.content, entry))]
                        /\ last' = Op("update", entry, "ok", access)
                        /\ external' = ExternalAfter(entry)
                   ELSE /\ \E c \in TruncatedContents :
                              file' = [file EXCEPT !.content = c]
                        /\ last' = Op("update", entry, "err", access)
                        /\ external' = NoEntry
    /\ trail' = NoTrail

\* A call of update_entry with any entry.
UpdateEntry == \E entry \in Entries : update_entry(entry)

\* ------------------------------------------------------------- environment
Interfere(f) ==
    /\ UNCHANGED procs
    /\ file' = f
    /\ last' = Op("env", NoEntry, "ok", "rw")
    /\ trail' = NoTrail
    /\ external' = NoEntry
    /\ UNCHANGED <<passwords, status, fresh, added, path, file_path, targets>>

\* The file is removed.
EnvRemove ==
    /\ file.exists
    /\ Interfere(NoFile)

\* The file is overwritten with bytes that are not a JSON object.
EnvCorrupt ==
    /\ file.exists
    /\ file.content # Garbage
    /\ Interfere([file EXCEPT !.content = Garbage])

\* Another writer adds or changes one record of the file while the store is
\* loaded.
EnvExternalWrite ==
    /\ UNCHANGED procs
    /\ status = "loaded"
    /\ file.exists
    /\ \E entry \in Entries :
         /\ file' = [file EXCEPT !.content =
                        to_string_pretty(SavedObject(file.content, entry))]
         /\ file' # file
         /\ external' = entry
    /\ last' = Op("env", NoEntry, "ok", "rw")
    /\ trail' = NoTrail
    /\ UNCHANGED <<passwords, status, fresh, added, path, file_path, targets>>

Next ==
    \/ NewExisting
    \/ NewFresh
    \/ Drop
    \/ Get
    \/ Exists
    \/ ListAll
    \/ AddAndSaveEntry
    \/ UpdateEntry
    \/ EnvRemove
    \/ EnvCorrupt
    \/ EnvExternalWrite

Spec == Init /\ [][Next]_vars

TypeOK ==
    /\ DOMAIN passwords \subseteq Services
    /\ status \in {"uninit", "loaded", "crashed"}
    /\ file.exists \in BOOLEAN
    /\ added \subseteq Services
    /\ fresh \in BOOLEAN


\* ------------------------------------------------------------------ claims
\* The records of the persisted form, as entries.
FileRecords(content) ==
    LET json_obj == from_reader(content)
    IN {PasswordEntry(k, json_obj[k].username, json_obj[k].password) :
            k \in DOMAIN json_obj}

IndexRecords(index) == {index[k] : k \in DOMAIN index}

\* The keys of the persisted state as save_entry and update_entry read it.
PersistedKeys(content) ==
    IF ParseOk(content) THEN DOMAIN from_reader(content) ELSE {}

\* The number of members the persisted object has under `key`.
MemberCount(content, key) ==
    Cardinality({i \in 1..Len(content.members) : content.members[i][1] = key})

\* C1: right after add_and_save_entry or update_entry returned success, the
\* index and the backing file hold exactly the same records.
C1_IndexMatchesFile ==
    (last.op \in {"add", "update"} /\ last.result = "ok") =>
        /\ ParseOk(file.content)
        /\ IndexRecords(passwords) = FileRecords(file.content)

\* C2: after update_entry(entry) returned success for a service that was
\* added before, get(entry.service) returns entry, and get of every other
\* service returns what it returned before.
C2_UpdateHitInMemory ==
    [][(/\ last'.op = "update"
        /\ last'.result = "ok"
        /\ last'.entry.service \in added)
       => /\ get(passwords', last'.entry.service) = {last'.entry}
          /\ \A t \in Services \ {last'.entry.service} :
                get(passwords', t) = get(passwords, t)]_vars

\* C3: update_entry(entry) for a service that is not a record of the
\* persisted state returns NotFound and changes neither the file nor the
\* index (stated for calls whose file operations the operating system
\* serves without error).
C3_UpdateMiss ==
    [][(/\ last'.op = "update"
        /\ last'.access = "rw"
        /\ last'.result # "err"
        /\ last'.entry.service \notin PersistedKeys(file.content))
       => /\ last'.result = "notfound"
          /\ file' = file
          /\ passwords' = passwords]_vars

\* C4: after a successful update_entry(entry) of a service that add_and_save_entry
\* had persisted, the file holds for that service exactly the record with
\* entry's username and password, under the same key, and every other record
\* of the file is as before.
C4_UpdateHitOnDisk ==
    [][(/\ last'.op = "update"
        /\ last'.result = "ok"
        /\ last'.entry.service \in PersistedKeys(file.content))
       => /\ ParseOk(file'.content)
          /\ LET before == from_reader(file.content)
                 after == from_reader(file'.content)
                 s == last'.entry.service
             IN /\ DOMAIN after = DOMAIN before
                /\ after[s] = JsonValue(last'.entry)
                /\ MemberCount(file'.content, s) = 1
                /\ \A t \in DOMAIN before \ {s} :
                      /\ after[t] = before[t]
                      /\ MemberCount(file'.content, t) = 1]_vars

\* A successful update has replaced both fields of a record that an add had
\* persisted, next to a record of another service.
C4_Witness ==
    /\ last.op = "update"
    /\ last.result = "ok"
    /\ last.entry.service \in added
    /\ passwords[last.entry.service].username # last.entry.username
    /\ passwords[last.entry.service].password # last.entry.password
    /\ last.entry \in FileRecords(file.content)
    /\ Cardinality(FileRecords(file.content)) > 1

\* The index that holds exactly the entries of `entries`.
IndexOf(entries) ==
    [k \in {e.service : e \in entries} |-> CHOOSE e \in entries : e.service = k]

\* C5: after successful add_and_save_entry calls with pairwise distinct service
\* names on a fresh path, dropping the store and opening the path again
\* succeeds and yields exactly the entries that were added.
C5_RoundTrip ==
    (/\ last.op = "new"
     /\ last.access = "rw"
     /\ ~fresh
     /\ trail.clean)
    => /\ last.result = "ok"
       /\ passwords = IndexOf(trail.entries)

\* C6: every index key is the service of its entry, so no two entries share a
\* service name; add_and_save_entry(e) with e.service already a key replaces
\* the record: get(e.service) returns e, the index holds one entry for the
\* service and, when the write succeeded, so does the file.
C6_UniquenessByOverwrite ==
    [][/\ \A k \in DOMAIN passwords' : passwords'[k].service = k
       /\ (/\ last'.op = "add"
           /\ last'.result \in {"ok", "err"}
           /\ last'.replaced # {})
          => LET e == last'.entry
             IN /\ get(passwords', e.service) = {e}
                /\ Cardinality({x \in IndexRecords(passwords') :
                                   x.service = e.service}) = 1
                /\ DOMAIN passwords' = DOMAIN passwords
                /\ last'.result = "ok" =>
                      /\ ParseOk(file'.content)
                      /\ MemberCount(file'.content, e.service) = 1
                      /\ {x \in FileRecords(file'.content) :
                             x.service = e.service} = {e}]_vars

\* An add has overwritten, in the index and in the file, a record of the same
\* service with other fields.
C6_Witness ==
    /\ last.op = "add"
    /\ last.result = "ok"
    /\ last.replaced # {}
    /\ \A e \in last.replaced :
          e.username # last.entry.username /\ e.password # last.entry.password
    /\ get(passwords, last.entry.service) = {last.entry}
    /\ MemberCount(file.content, last.entry.service) = 1
    /\ Cardinality(DOMAIN passwords) > 1

\* C7: on a store opened on a fresh path, exists(s) is true exactly for the
\* services add_and_save_entry was called with on this store, and once
\* exists(s) is true it stays true for the life of the store.
C7_DuplicatePreCheck ==
    [][/\ (status' = "loaded" /\ fresh') =>
              \A s \in Services :
                 check_for_duplicate_service_entry(passwords', s) <=> s \in added'
       /\ (status = "loaded" /\ status' = "loaded") =>
              \A s \in Services :
                 check_for_duplicate_service_entry(passwords, s)
                    => check_for_duplicate_service_entry(passwords', s)]_vars

\* exists has answered true for an added service while another service has
\* not been added.
C7_Witness ==
    /\ status = "loaded"
    /\ fresh
    /\ last.op = "exists"
    /\ last.result = "true"
    /\ last.entry.service \in added
    /\ added # Services

\* C8: new on a path where no file exists returns a store with an empty index
\* (list_all prints nothing, get finds nothing), and afterwards a file exists
\* at the path.
C8_FreshStore ==
    [][(/\ last'.op = "new"
        /\ last'.result = "ok"
        /\ ~file.exists)
       => /\ status' = "loaded"
          /\ list_all(passwords') = {}
          /\ \A s \in Services : get(passwords', s) = {}
          /\ file'.exists]_vars

\* A store has just been opened on a path that had no file.
C8_Witness ==
    /\ last.op = "new"
    /\ last.result = "ok"
    /\ fresh
    /\ status = "loaded"
    /\ file.exists

\* C9: when persistence fails during add_and_save_entry(e), the call returns
\* an error value and the index contains e under e.service.
C9_FailedAddNotRolledBack ==
    (last.op = "add" /\ last.result # "ok") =>
        /\ last.result = "err"
        /\ get(passwords, last.entry.service) = {last.entry}
        /\ check_for_duplicate_service_entry(passwords, last.entry.service)

\* C10: no operation on a loaded store terminates the process; each returns
\* a value and the store stays usable.
C10_NoPanicWhenLoaded ==
    last.op \in {"get", "exists", "list", "add", "update"} =>
        /\ last.result # "panic"
        /\ status = "loaded"

\* The indexes that differ from `index` only in password values.
PasswordVariants(index) ==
    {[k \in DOMAIN index |->
         PasswordEntry(index[k].service, index[k].username, q[k])] :
       q \in [DOMAIN index -> Passwords]}

\* C11: list_all exposes, for every entry of the index, its service and its
\* username and nothing else; two stores whose indexes differ only in password
\* values produce the same listing.
C11_ListingOmitsSecrets ==
    last.op = "list" =>
        /\ list_all(passwords) =
              {<<e.service, e.username>> : e \in IndexRecords(passwords)}
        /\ \A other \in PasswordVariants(passwords) :
              list_all(other) = list_all(passwords)

\* A store with two entries has been listed.
C11_Witness ==
    /\ last.op = "list"
    /\ status = "loaded"
    /\ Cardinality(DOMAIN passwords) > 1
    /\ Cardinality(PasswordVariants(passwords)) > 1

\* C12: the path of a store is fixed: whatever operations have run, the
\* path the store reports is the path given to new, and every file the store
\* has opened or created is at that path.
C12_BackingPathFixed ==
    [][/\ status' = "loaded" =>
             /\ get_file_path(file_path') = path'
             /\ targets' = {path'}
       /\ (status = "loaded" /\ status' = "loaded") => file_path' = file_path]_vars

\* A store opened on the path of the tests has read and rewritten its file.
C12_Witness ==
    /\ status = "loaded"
    /\ last.op = "update"
    /\ last.result = "ok"
    /\ path = "passwords.txt"
    /\ get_file_path(file_path) = "passwords.txt"
    /\ targets = {"passwords.txt"}

\* C13: a successful add_and_save_entry persists the entire current index:
\* after it returned success every entry of the index, an entry of an earlier
\* add that failed to persist included, is a record of the file.
C13_AddPersistsWholeIndex ==
    (last.op = "add" /\ last.result = "ok") =>
        /\ ParseOk(file.content)
        /\ IndexRecords(passwords) \subseteq FileRecords(file.content)

\* C14: a failed write never destroys persisted data: when the write of
\* add_and_save_entry or update_entry fails after it started, the file still
\* holds a readable set of records, the previous content or the new one.
C14_FailedWriteKeepsData ==
    [][(/\ last'.op \in {"add", "update"}
        /\ last'.result = "err"
        /\ ParseOk(file.content))
       => /\ ParseOk(file'.content)
          /\ \/ file'.content = file.content
             \/ file'.content =
                   to_string_pretty(SavedObject(file.content, last'.entry))]_vars

\* C15: update_entry on a file that exists but does not parse treats the
\* persisted state as empty, returns NotFound and does not write to the file
\* (stated for calls whose file operations the operating system serves
\* without error).
C15_UpdateOnCorruptFile ==
    [][(/\ last'.op = "update"
        /\ last'.access = "rw"
        /\ last'.result # "err"
        /\ file.exists
        /\ ~ParseOk(file.content))
       => /\ last'.result = "notfound"
          /\ file' = file]_vars

\* C16: a record another writer put into the file after the store was opened
\* survives a later successful update_entry of a different service exactly as
\* it was written, whether or not the index knows the service.
C16_UpdateKeepsExternalEdits ==
    [][(/\ last'.op = "update"
        /\ last'.result = "ok"
        /\ external # NoEntry
        /\ external.service # last'.entry.service)
       => /\ ParseOk(file'.content)
          /\ external \in FileRecords(file'.content)
          /\ MemberCount(file'.content, external.service) = 1]_vars

\* An update has succeeded on a file that holds a record of another writer
\* for a service the index does not know.
C16_Witness ==
    /\ last.op = "update"
    /\ last.result = "ok"
    /\ external # NoEntry
    /\ external.service # last.entry.service
    /\ external.service \notin DOMAIN passwords
    /\ external \in FileRecords(file.content)
    /\ last.entry \in FileRecords(file.content)

\* ------------------------------------------------ two processes, one file
\* Both processes have opened a store on a file that an earlier session left:
\* an object with at most one record.  Each then runs one add_and_save_entry
\* or update_entry, whose file operations interleave with the other's.
RaceInitialObjects ==
    {EmptyMap} \cup {MapInsert(EmptyMap, e.service, JsonValue(e)) : e \in Entries}

InitRace ==
    /\ passwords = EmptyIndex
    /\ status = "uninit"
    /\ last = Op("init", NoEntry, "ok", "rw")
    /\ fresh = FALSE
    /\ added = {}
    /\ trail = NoTrail
    /\ path \in Paths
    /\ file_path = NoPath
    /\ targets = {}
    /\ external = NoEntry
    /\ \E obj \in RaceInitialObjects :
         /\ file = [exists |-> TRUE, content |-> to_string_pretty(obj)]
         /\ procs = [p \in Procs |->
                       [IdleProc EXCEPT !.index = load(EmptyIndex, file.content)]]

RaceFrame ==
    UNCHANGED <<passwords, status, last, fresh, added, trail,
                path, file_path, targets, external>>

\* A write that reads the file again and merges its object into it.
RaceMergedText(json_obj, content) ==
    LET current == IF ParseOk(content) THEN from_reader(content) ELSE EmptyMap
    IN to_string_pretty([k \in DOMAIN current \cup DOMAIN json_obj |->
                            IF k \in DOMAIN json_obj THEN json_obj[k] ELSE current[k]])

\* writer.write_all(serde_json::to_string_pretty(&json_obj)..): the text
\* written is the one of the object read earlier, whatever the file holds now.
RaceWrittenText(json_obj, content) == to_string_pretty(json_obj)

\* The process enters add_and_save_entry or update_entry: the index is
\* updated (add only), the file is read and the entry inserted into the
\* object read.
RaceRead(p) ==
    /\ procs[p].pc = "idle"
    /\ \E op \in {"add", "update"}, entry \in Entries :
         procs' = [procs EXCEPT ![p] =
                     [pc |-> "read", op |-> op, entry |-> entry,
                      index |-> IF op = "add" THEN add(procs[p].index, entry)
                                ELSE procs[p].index,
                      json_obj |-> IF op = "add"
                                   THEN SavedObject(file.content, entry)
                                   ELSE UpdatedObject(file.content, entry),
                      result |-> "none", wrote_last |-> FALSE]]
    /\ UNCHANGED file
    /\ RaceFrame

\* OpenOptions::new().write(true).truncate(true).open(..): the file is emptied.
RaceTruncate(p) ==
    /\ procs[p].pc = "read"
    /\ procs' = [procs EXCEPT ![p].pc = "opened"]
    /\ file' = [file EXCEPT !.content = EmptyContent]
    /\ RaceFrame

\* write_all at offset 0.  When the other process has written since the
\* truncation, the bytes overlay what is there: the result is the text of this
\* process or, when the other text was longer, a text that does not parse.
RaceWrite(p) ==
    /\ procs[p].pc = "opened"
    /\ procs' = [procs EXCEPT ![p].pc = "done", ![p].result = "ok",
                              ![p].wrote_last =
                                 \A o \in Procs \ {p} : procs[o].pc = "done"]
    /\ \E c \in (IF file.content = EmptyContent
                 THEN {RaceWrittenText(procs[p].json_obj, file.content)}
                 ELSE {RaceWrittenText(procs[p].json_obj, file.content), Garbage}) :
         file' = [file EXCEPT !.content = c]
    /\ RaceFrame

RaceReadStep == \E p \in Procs : RaceRead(p)

RaceTruncateStep == \E p \in Procs : RaceTruncate(p)

RaceWriteStep == \E p \in Procs : RaceWrite(p)

NextRace ==
    \/ RaceReadStep
    \/ RaceTruncateStep
    \/ RaceWriteStep

SpecRace == InitRace /\ [][NextRace]_vars

\* Both processes have returned success for mutations of different services.
RaceBothSucceeded ==
    /\ \A p \in Procs : procs[p].pc = "done" /\ procs[p].result = "ok"
    /\ procs["A"].entry.service # procs["B"].entry.service

\* The record of process p, as the file holds it or not.
RaceRecordInFile(p) ==
    /\ ParseOk(file.content)
    /\ procs[p].entry \in FileRecords(file.content)

\* C17: the race between read and rewrite is not eliminated: whenever both
\* processes have returned success for different services, the process that
\* wrote last had read an object without the record of the other, and the
\* file parses, the record of the other process is missing from the file; and
\* such a state is reachable.
C17_LostUpdate ==
    \A p \in Procs, q \in Procs :
        (/\ p # q
         /\ RaceBothSucceeded
         /\ procs[q].wrote_last
         /\ procs[p].entry.service \notin DOMAIN procs[q].json_obj
         /\ ParseOk(file.content))
        => procs[p].entry \notin FileRecords(file.content)

\* Both processes returned success, the file parses and holds the record of
\* one process but not the record the other one wrote.
C17_Witness ==
    /\ RaceBothSucceeded
    /\ procs["B"].wrote_last
    /\ RaceRecordInFile("B")
    /\ ~RaceRecordInFile("A")
    /\ procs["A"].op = "add"
    /\ procs["B"].op = "update"
    /\ procs["A"].entry \in IndexRecords(procs["A"].index)

\* C18: get, exists and list change neither the index nor the file; get(s)
\* returns an entry exactly when an index entry has the service s, letter for
\* letter, and reports absence otherwise.
C18_ReadsAreSideEffectFree ==
    [][/\ last'.op \in {"get", "exists", "list"} =>
             /\ passwords' = passwords
             /\ file' = file
             /\ status' = "loaded"
       /\ last'.op = "get" =>
             LET q == last'.entry.service
                 matches == {e \in IndexRecords(passwords) : e.service = q}
             IN /\ get(passwords, q) = matches
                /\ last'.result = (IF matches = {} THEN "none" ELSE "some")]_vars

\* get has reported absence for a name that differs from a stored service
\* name only in letter case.
C18_Witness ==
    /\ last.op = "get"
    /\ last.result = "none"
    /\ status = "loaded"
    /\ last.entry.service \notin Services
    /\ ToLower(last.entry.service) \in DOMAIN passwords

\* -------------------------------------------------------------- the dialog
\* The store driven by the commands of run_dialog (src/src/cli/mod.rs).

\* A read_service_name that returns whatever name it reads.
AcceptsAnyService(index, service) == TRUE

\* read_service_name returns the name it read when the store has no entry
\* for it, and asks again otherwise.
AcceptsService(index, service) ==
    ~check_for_duplicate_service_entry(index, service)

\* handle_add_password (generated or entered password): the first name that
\* read_service_name accepts, a username and a password make the entry that
\* is added and saved.
DialogAdd ==
    \E service \in Services, username \in Usernames, password \in Passwords :
        /\ AcceptsService(passwords, service)
        /\ add_and_save_entry(PasswordEntry(service, username, password))

\* handle_get_password
DialogGet == Get

\* handle_update_service, "Update username": the entry get returns, with the
\* username read from the terminal, is given to update_entry.
DialogUpdateUsername ==
    \E service \in Queries, username \in Usernames :
        \E entry \in get(passwords, service) :
            update_entry(PasswordEntry(service, username, entry.password))

\* handle_update_service, "Update password": the entry get returns, with the
\* password read and verified, is given to update_entry.
DialogUpdatePassword ==
    \E service \in Queries, password \in Passwords :
        \E entry \in get(passwords, service) :
            update_entry(PasswordEntry(service, entry.username, password))

NextDialog ==
    \/ NewExisting
    \/ NewFresh
    \/ Drop
    \/ DialogAdd
    \/ DialogGet
    \/ DialogUpdateUsername
    \/ DialogUpdatePassword
    \/ EnvRemove
    \/ EnvCorrupt
    \/ EnvExternalWrite

SpecDialog == Init /\ [][NextDialog]_vars

\* C19: in the add dialog a service name is accepted only when exists(name)
\* is false, so over any sequence of dialog commands add_and_save_entry is
\* never called with a service that is a key of the index, and no index entry
\* is overwritten by an add.
C19_CallerEnforcedUniqueness ==
    [][last'.op = "add" =>
          /\ ~check_for_duplicate_service_entry(passwords, last'.entry.service)
          /\ last'.entry.service \notin DOMAIN passwords
          /\ last'.replaced = {}
          /\ last'.result # "panic" =>
                /\ DOMAIN passwords' = DOMAIN passwords \cup {last'.entry.service}
                /\ \A k \in DOMAIN passwords : passwords'[k] = passwords[k]]_vars

\* The add dialog has stored an entry next to the entries of all other
\* service names, so that every name is now taken.
C19_Witness ==
    /\ last.op = "add"
    /\ last.result = "ok"
    /\ DOMAIN passwords = Services
    /\ \A s \in Services : ~AcceptsService(passwords, s)

\* C20: a file created by new is itself a valid store: after new on a path
\* without a file and no mutation, a second new on the path succeeds and
\* yields a loaded store with an empty index.
C20_CreatedFileIsLoadable ==
    (/\ last.op = "new"
     /\ last.access = "rw"
     /\ ~fresh
     /\ file = CreatedFile)
    => /\ last.result = "ok"
       /\ status = "loaded"
       /\ passwords = EmptyIndex

\* One user working through the dialog, with no other writer of the file:
\* the commands of run_dialog, and the program ending and starting again.
NextSession ==
    \/ NewExisting
    \/ NewFresh
    \/ Drop
    \/ DialogAdd
    \/ DialogGet
    \/ DialogUpdateUsername
    \/ DialogUpdatePassword

SpecSession == Init /\ [][NextSession]_vars

\* C21: successive dialog updates compose: an update dialog changes one field
\* of the persisted record of its service and keeps the other field as the
\* file had it, so that an update of the username followed by an update of
\* the password leaves both new values in the file (and likewise in the other
\* order).  Stated for one update dialog that returns without error on a
\* file that parses and holds a record for the service.
C21_DialogUpdatesCompose ==
    [][(/\ last'.op = "update"
        /\ last'.result = "ok"
        /\ ParseOk(file.content)
        /\ last'.entry.service \in DOMAIN from_reader(file.content))
       => LET s == last'.entry.service
              before == from_reader(file.content)[s]
              after == from_reader(file'.content)[s]
          IN \/ after.username = before.username
             \/ after.password = before.password]_vars

====
